---- MODULE Spec2Model ----
(***************************************************************************)
(* GrafanaWeatherApp.py: a polling loop that fetches the current weather   *)
(* from an HTTP provider and republishes it as ten Prometheus gauges       *)
(* labelled with the configured city.  The main thread runs               *)
(* WeatherMonitor.__init__ and WeatherMonitor.start; the HTTP server       *)
(* started by start_http_server is a daemon thread that answers scrapes.   *)
(***************************************************************************)
EXTENDS Integers, Sequences, FiniteSets, TLC

(* Largest base value v of a provider response (see GoodBody). *)
MaxVal == 1

VARIABLES
    config,        \* the file config.ini as found on disk (fixed)
    port_in_use,   \* whether another process holds the metrics port (fixed)
    pc,            \* position of the main thread
    self,          \* attributes of the WeatherMonitor object
    gauges,        \* the ten Gauge objects: per gauge, its labelled series
    weather_data,  \* local variable of WeatherMonitor.start (None while unbound)
    upd,           \* index of the statement of update_metrics being run
    phase,         \* "labels" or "set": progress inside that statement
    server_starts, \* number of calls of start_http_server that succeeded
    server_up,     \* whether the metrics HTTP server thread is alive
    request,       \* parameters of the most recent GET sent to the provider
    in_flight,     \* number of GET requests sent and not yet returned
    provider,      \* "idle", "pending" or "silent" (will never answer)
    log,           \* levels of the logging calls made since the current cycle began
    exc,           \* the uncaught exception, if any
    response,      \* outcome of the GET most recently returned to the fetcher
    last_sample,   \* most recent sample returned by fetch_weather_data
    published,     \* gauge contents when update_metrics last was not running
    scraped,       \* what the scrape being answered observed
    gets,          \* number of GETs sent since the current cycle began
    metric_sets    \* number of PrometheusMetrics objects constructed

vars == <<config, port_in_use, pc, self, gauges, weather_data, upd, phase,
          server_starts, server_up, request, in_flight, provider, log, exc,
          response, last_sample, published, scraped, gets, metric_sets>>

-----------------------------------------------------------------------------
(* Python and JSON values.  Scalars and objects are tagged pairs.          *)

Num(n) == <<"num", n>>
NumStr(n) == <<"numstr", n>>
Str == <<"str", 0>>
Null == <<"null", 0>>
Obj(r) == <<"obj", r>>
Raise == <<"raise", 0>>
None == [py |-> "None"]
NoRequest == [sent |-> FALSE]
NoExc == [raised |-> FALSE]
NoScrape == [answered |-> FALSE]
NoResponse == [kind |-> "none"]
NotConstructed == [constructed |-> FALSE]

DropKey(r, k) == [f \in DOMAIN r \ {k} |-> r[f]]

-----------------------------------------------------------------------------
(* Configuration file.                                                     *)

ConfigFile ==
    [WeatherAPI |-> [api_key |-> "key", base_url |-> "http://api", city |-> "Berlin", country |-> "DE"],
     Prometheus |-> [port |-> "8000", scrape_interval |-> "60"],
     Logging |-> [log_file |-> "weather.log", log_level |-> "INFO"]]

ValidConfig == [readable |-> TRUE, file |-> ConfigFile]

SectionKeys ==
    {<<"WeatherAPI", "api_key">>, <<"WeatherAPI", "base_url">>, <<"WeatherAPI", "city">>,
     <<"WeatherAPI", "country">>, <<"Prometheus", "port">>, <<"Prometheus", "scrape_interval">>,
     <<"Logging", "log_file">>, <<"Logging", "log_level">>}

WithValue(sec, key, val) ==
    [ValidConfig EXCEPT !.file = [ConfigFile EXCEPT ![sec] = [ConfigFile[sec] EXCEPT ![key] = val]]]

(* The configurations tried: the valid one, and the valid one with one     *)
(* defect.                                                                 *)
Configs ==
    {ValidConfig, [ValidConfig EXCEPT !.readable = FALSE]}
    \cup {[ValidConfig EXCEPT !.file = DropKey(ConfigFile, s)] : s \in DOMAIN ConfigFile}
    \cup {[ValidConfig EXCEPT !.file = [ConfigFile EXCEPT ![sk[1]] = DropKey(ConfigFile[sk[1]], sk[2])]] :
            sk \in SectionKeys}
    \cup {WithValue("Prometheus", "port", "abc"),
          WithValue("Prometheus", "scrape_interval", "abc"),
          WithValue("Prometheus", "scrape_interval", "-5"),
          WithValue("Logging", "log_level", "verbose"),
          WithValue("WeatherAPI", "api_key", ""),
          WithValue("WeatherAPI", "city", "")}

(* A reader that fails to notice the unreadable file. *)
ParsedSections_ignoring_readability(c) == DOMAIN c.file

(* ConfigParser.read skips a file it cannot open and leaves no sections. *)
ParsedSections(c) == IF c.readable THEN DOMAIN c.file ELSE {}

(* Python's int() on the strings that occur in Configs. *)
int(s) ==
    CASE s = "8000" -> Num(8000)
      [] s = "60" -> Num(60)
      [] s = "-5" -> Num(0 - 5)
      [] OTHER -> Raise

(* logging.basicConfig accepts only the names of the standard levels. *)
LevelNames == {"CRITICAL", "FATAL", "ERROR", "WARN", "WARNING", "INFO", "DEBUG", "NOTSET"}

-----------------------------------------------------------------------------
(* Provider responses.                                                     *)

(* Value of the i-th field of the response with base value v: every field  *)
(* is 0 for v = 0, and neighbouring fields differ otherwise.               *)
FieldVal(v, i) == IF v = 0 THEN 0 ELSE v + (i % 2)

GoodBody(v) ==
    [main |-> Obj([temp |-> Num(FieldVal(v, 1)), humidity |-> Num(FieldVal(v, 2)),
                   pressure |-> Num(FieldVal(v, 3)), feels_like |-> Num(FieldVal(v, 5))]),
     wind |-> Obj([speed |-> Num(FieldVal(v, 4)), deg |-> Num(FieldVal(v, 7))]),
     visibility |-> Num(FieldVal(v, 6)),
     clouds |-> Obj([k \in {"all"} |-> Num(FieldVal(v, 8))]),
     rain |-> Obj([k \in {"1h"} |-> Num(FieldVal(v, 9))]),
     snow |-> Obj([k \in {"1h"} |-> Num(FieldVal(v, 10))]),
     sys |-> Obj([sunrise |-> Num(FieldVal(v, 11)), sunset |-> Num(FieldVal(v, 12))])]

(* The leaves of the response that fetch_weather_data reads. *)
Leaves ==
    {<<"main", "temp">>, <<"main", "humidity">>, <<"main", "pressure">>, <<"main", "feels_like">>,
     <<"wind", "speed">>, <<"wind", "deg">>, <<"clouds", "all">>, <<"rain", "1h">>,
     <<"snow", "1h">>, <<"sys", "sunrise">>, <<"sys", "sunset">>}

(* What a provider may send in place of the number x: null, a string that  *)
(* is no number, or the number as a string.                                *)
Replacements(x) == {Null, Str, NumStr(x[2])}

(* The body the provider sends when there is no precipitation: no rain    *)
(* and no snow object.                                                     *)
DryBody(v) == DropKey(DropKey(GoodBody(v), "rain"), "snow")

(* The variants of a body b tried: b itself, and b with one of the given   *)
(* keys removed or replaced by null, or one of the given leaves removed or *)
(* replaced by null, a non-numeric string or a numeric string.             *)
Variants(b, keys, leaves) ==
    {b}
    \cup {DropKey(b, k) : k \in keys}
    \cup {[b EXCEPT ![k] = Null] : k \in keys}
    \cup {[b EXCEPT ![l[1]] = Obj(DropKey(b[l[1]][2], l[2]))] : l \in leaves}
    \cup UNION {{[b EXCEPT ![l[1]] = Obj([b[l[1]][2] EXCEPT ![l[2]] = x])] :
                    x \in Replacements(b[l[1]][2][l[2]])} : l \in leaves}

PrecipitationLeaves == {<<"rain", "1h">>, <<"snow", "1h">>}

(* The responses without precipitation vary in every required part, those  *)
(* with precipitation in the rain and snow objects.                        *)
BodiesOf(v) ==
    Variants(DryBody(v), DOMAIN DryBody(v), Leaves \ PrecipitationLeaves)
    \cup {[DryBody(v) EXCEPT !["visibility"] = x] : x \in Replacements(DryBody(v)["visibility"])}
    \cup Variants(GoodBody(v), {"rain", "snow"}, PrecipitationLeaves)

Bodies == UNION {BodiesOf(v) : v \in 0..MaxVal}

(* What requests.get, raise_for_status and response.json can deliver. *)
Responses ==
    {[kind |-> "network_error"], [kind |-> "http_error"], [kind |-> "invalid_json"],
     [kind |-> "json", data |-> <<"list", 0>>]}
    \cup {[kind |-> "json", data |-> Obj(b)] : b \in Bodies}

-----------------------------------------------------------------------------
(* WeatherDataFetcher.                                                     *)

(* d[k] of Python: KeyError when the key is missing, TypeError when d is   *)
(* not a dict.                                                             *)
Index(d, k) == IF d[1] = "obj" /\ k \in DOMAIN d[2] THEN d[2][k] ELSE Raise

EmptyDict == Obj([k \in {} |-> Null])

(* d.get(k, default) of Python: AttributeError when d is not a dict. *)
get(d, k, default) ==
    IF d[1] = "obj"
    THEN IF k \in DOMAIN d[2] THEN d[2][k] ELSE default
    ELSE Raise

(* The dict literal built from the decoded body. *)
SampleOf(data) ==
    [temperature |-> Index(Index(data, "main"), "temp"),
     humidity |-> Index(Index(data, "main"), "humidity"),
     pressure |-> Index(Index(data, "main"), "pressure"),
     wind_speed |-> Index(Index(data, "wind"), "speed"),
     feels_like |-> Index(Index(data, "main"), "feels_like"),
     visibility |-> Index(data, "visibility"),
     wind_direction |-> Index(Index(data, "wind"), "deg"),
     clouds |-> Index(Index(data, "clouds"), "all"),
     rain_1h |-> get(get(data, "rain", EmptyDict), "1h", Num(0)),
     snow_1h |-> get(get(data, "snow", EmptyDict), "1h", Num(0)),
     sunrise |-> Index(Index(data, "sys"), "sunrise"),
     sunset |-> Index(Index(data, "sys"), "sunset")]

(* Number of ERROR entries fetch_weather_data logs for a response. *)
ErrorsLogged(resp) ==
    IF resp.kind # "json" THEN 1
    ELSE IF \E f \in DOMAIN SampleOf(resp.data) : SampleOf(resp.data)[f] = Raise THEN 1 ELSE 0

(* A fetcher that leaves out the fields it cannot read instead of failing. *)
fetch_weather_data_lenient(resp) ==
    IF resp.kind # "json" \/ resp.data[1] # "obj" THEN None
    ELSE LET sample == SampleOf(resp.data) IN
         [f \in {k \in DOMAIN sample : sample[k] # Raise} |-> sample[f]]

(* Return value of fetch_weather_data for a response: every exception of   *)
(* the try block ends in the except clause, which returns None.            *)
fetch_weather_data(resp) ==
    IF resp.kind # "json" THEN None
    ELSE LET sample == SampleOf(resp.data) IN
         IF \E f \in DOMAIN sample : sample[f] = Raise THEN None ELSE sample

(* A fetcher that builds q as "<country>,<city>". *)
params_country_first(fetcher) ==
    [q |-> <<fetcher.country, fetcher.city>>, appid |-> fetcher.api_key, units |-> "metric"]

(* The query parameters of the GET. *)
params(fetcher) == [q |-> <<fetcher.city, fetcher.country>>, appid |-> fetcher.api_key, units |-> "metric"]

-----------------------------------------------------------------------------
(* PrometheusMetrics.                                                      *)

(* The statements of update_metrics in order: gauge and sample field. *)
GaugeOrder ==
    << <<"weather_temperature", "temperature">>,
       <<"weather_humidity", "humidity">>,
       <<"weather_pressure", "pressure">>,
       <<"weather_wind_speed", "wind_speed">>,
       <<"weather_wind_direction", "wind_direction">>,
       <<"weather_clouds", "clouds">>,
       <<"weather_visibility", "visibility">>,
       <<"weather_rain", "rain_1h">>,
       <<"weather_snow", "snow_1h">>,
       <<"weather_feels_like", "feels_like">> >>

GaugeNames == {GaugeOrder[i][1] : i \in DOMAIN GaugeOrder}

FieldOf(g) == LET i == CHOOSE j \in DOMAIN GaugeOrder : GaugeOrder[j][1] = g IN GaugeOrder[i][2]

(* Python's float() as Gauge.set applies it: numbers and numeric strings   *)
(* convert, None and other strings raise.                                  *)
float(x) == IF x[1] \in {"num", "numstr"} THEN Num(x[2]) ELSE Raise

(* Gauge.labels(city=c): the child series of that label, created with      *)
(* value 0 when it does not exist yet.  A gauge is its set of              *)
(* <<label, value>> series.                                                *)
labels(g, c) == IF \E p \in g : p[1] = c THEN g ELSE g \cup {<<c, 0>>}

(* set(v) on the child series of label c. *)
set(g, c, v) == {p \in g : p[1] # c} \cup {<<c, v>>}

-----------------------------------------------------------------------------
(* The process.                                                            *)

Init ==
    /\ config \in Configs
    /\ port_in_use \in BOOLEAN
    /\ port_in_use => config = ValidConfig
    /\ pc = "init"
    /\ self = NotConstructed
    /\ gauges = [g \in GaugeNames |-> {}]
    /\ weather_data = None
    /\ upd = 0
    /\ phase = "idle"
    /\ server_starts = 0
    /\ server_up = FALSE
    /\ request = NoRequest
    /\ in_flight = 0
    /\ provider = "idle"
    /\ log = <<>>
    /\ exc = NoExc
    /\ response = NoResponse
    /\ last_sample = None
    /\ published = [g \in GaugeNames |-> {}]
    /\ scraped = NoScrape
    /\ gets = 0
    /\ metric_sets = 0

Raised(type, line) == [raised |-> TRUE, type |-> type, line |-> line]

(* First line of WeatherMonitor.__init__ that raises for the file, 0 when  *)
(* none does: WeatherConfig.__init__ reads the three sections, the three   *)
(* get_*_config methods read the eight keys, logging.basicConfig checks    *)
(* the level name.                                                         *)
InitFailure(c) ==
    LET secs == ParsedSections(c) IN
    IF "WeatherAPI" \notin secs THEN Raised("KeyError", 14)
    ELSE IF "Prometheus" \notin secs THEN Raised("KeyError", 15)
    ELSE IF "Logging" \notin secs THEN Raised("KeyError", 16)
    ELSE IF "api_key" \notin DOMAIN c.file.WeatherAPI THEN Raised("KeyError", 20)
    ELSE IF "base_url" \notin DOMAIN c.file.WeatherAPI THEN Raised("KeyError", 21)
    ELSE IF "city" \notin DOMAIN c.file.WeatherAPI THEN Raised("KeyError", 22)
    ELSE IF "country" \notin DOMAIN c.file.WeatherAPI THEN Raised("KeyError", 23)
    ELSE IF "port" \notin DOMAIN c.file.Prometheus THEN Raised("KeyError", 28)
    ELSE IF "scrape_interval" \notin DOMAIN c.file.Prometheus THEN Raised("KeyError", 29)
    ELSE IF "log_file" \notin DOMAIN c.file.Logging THEN Raised("KeyError", 34)
    ELSE IF "log_level" \notin DOMAIN c.file.Logging THEN Raised("KeyError", 35)
    ELSE IF c.file.Logging.log_level \notin LevelNames THEN Raised("ValueError", 122)
    ELSE NoExc

(* WeatherMonitor('config.ini') *)
WeatherMonitor_init ==
    /\ pc = "init"
    /\ IF InitFailure(config) # NoExc
       THEN /\ exc' = InitFailure(config)
            /\ pc' = "raised"
            /\ self' = self
       ELSE /\ self' = [data_fetcher |-> [api_key |-> config.file.WeatherAPI.api_key,
                                          base_url |-> config.file.WeatherAPI.base_url,
                                          city |-> config.file.WeatherAPI.city,
                                          country |-> config.file.WeatherAPI.country],
                        prometheus_metrics |-> [city |-> config.file.WeatherAPI.city],
                        prometheus_port |-> config.file.Prometheus.port,
                        scrape_interval |-> config.file.Prometheus.scrape_interval]
            /\ pc' = "constructed"
            /\ exc' = exc
    /\ scraped' = NoScrape
    /\ UNCHANGED <<config, port_in_use, gauges, weather_data, upd, phase, server_starts,
                   server_up, request, in_flight, provider, log, response, last_sample, published>>
    /\ metric_sets' = IF InitFailure(config) = NoExc \/ InitFailure(config).line = 122
                      THEN metric_sets + 1 ELSE metric_sets
    /\ gets' = gets

(* start(), up to the loop: int(port), start_http_server, logging.info. *)
start_server ==
    /\ pc = "constructed"
    /\ IF int(self.prometheus_port) = Raise
       THEN /\ exc' = Raised("ValueError", 130)
            /\ pc' = "raised"
            /\ UNCHANGED <<server_starts, server_up, log>>
       ELSE IF port_in_use
       THEN /\ exc' = Raised("OSError", 130)
            /\ pc' = "raised"
            /\ UNCHANGED <<server_starts, server_up, log>>
       ELSE /\ server_starts' = server_starts + 1
            /\ server_up' = TRUE
            /\ log' = <<"INFO">>
            /\ pc' = "loop"
            /\ exc' = exc
    /\ scraped' = NoScrape
    /\ UNCHANGED <<config, port_in_use, self, gauges, weather_data, upd, phase,
                   request, in_flight, provider, response, last_sample, published>>
    /\ UNCHANGED <<gets, metric_sets>>

(* A loop that may start the next fetch while the sleep is still running. *)
fetch_request_early ==
    /\ pc \in {"loop", "sleeping"}
    /\ request' = params(self.data_fetcher)
    /\ in_flight' = in_flight + 1
    /\ provider' = "pending"
    /\ log' = <<>>
    /\ response' = NoResponse
    /\ pc' = "requesting"
    /\ scraped' = NoScrape
    /\ UNCHANGED <<config, port_in_use, self, gauges, weather_data, upd, phase,
                   server_starts, server_up, exc, last_sample, published>>
    /\ gets' = gets + 1
    /\ metric_sets' = metric_sets

(* A fetcher that sends the GET again while the first one is unanswered. *)
fetch_request_resending ==
    /\ pc \in {"loop", "requesting"}
    /\ gets < 2
    /\ request' = params(self.data_fetcher)
    /\ in_flight' = IF pc = "loop" THEN in_flight + 1 ELSE in_flight
    /\ provider' = "pending"
    /\ log' = <<>>
    /\ response' = NoResponse
    /\ pc' = "requesting"
    /\ scraped' = NoScrape
    /\ gets' = gets + 1
    /\ UNCHANGED <<config, port_in_use, self, gauges, weather_data, upd, phase,
                   server_starts, server_up, exc, last_sample, published, metric_sets>>

(* The call of fetch_weather_data up to requests.get sending the GET. *)
fetch_request ==
    /\ pc = "loop"
    /\ request' = params(self.data_fetcher)
    /\ in_flight' = in_flight + 1
    /\ provider' = "pending"
    /\ log' = <<>>
    /\ response' = NoResponse
    /\ pc' = "requesting"
    /\ scraped' = NoScrape
    /\ UNCHANGED <<config, port_in_use, self, gauges, weather_data, upd, phase,
                   server_starts, server_up, exc, last_sample, published>>
    /\ gets' = gets + 1
    /\ metric_sets' = metric_sets

(* The provider turns out never to answer the pending request. *)
provider_silent ==
    /\ pc = "requesting"
    /\ provider = "pending"
    /\ provider' = "silent"
    /\ scraped' = NoScrape
    /\ UNCHANGED <<config, port_in_use, pc, self, gauges, weather_data, upd, phase,
                   server_starts, server_up, request, in_flight, log, exc,
                   response, last_sample, published>>
    /\ UNCHANGED <<gets, metric_sets>>

(* A test of the values: if weather_data and any(weather_data.values()). *)
Truthy_of_values(x) == x # None /\ \E f \in DOMAIN x : x[f] # Num(0)

(* if weather_data: -- None and the empty dict are false. *)
Truthy(x) == x # None /\ DOMAIN x # {}

(* requests.get returns or raises; fetch_weather_data returns; the loop    *)
(* tests the result and logs, and on a sample enters update_metrics.       *)
fetch_returned ==
    /\ pc = "requesting"
    /\ provider = "pending"
    /\ \E resp \in Responses :
         LET result == fetch_weather_data(resp) IN
         /\ response' = resp
         /\ weather_data' = result
         /\ IF Truthy(result)
            THEN /\ log' = log \o [i \in 1..ErrorsLogged(resp) |-> "ERROR"] \o <<"INFO">>
                 /\ pc' = "update"
                 /\ upd' = 1
                 /\ phase' = "labels"
            ELSE /\ log' = log \o [i \in 1..ErrorsLogged(resp) |-> "ERROR"] \o <<"WARNING">>
                 /\ pc' = "sleep"
                 /\ UNCHANGED <<upd, phase>>
         /\ last_sample' = IF result # None THEN result ELSE last_sample
    /\ in_flight' = in_flight - 1
    /\ provider' = "idle"
    /\ scraped' = NoScrape
    /\ UNCHANGED <<config, port_in_use, self, gauges, server_starts, server_up,
                   request, exc, published>>
    /\ UNCHANGED <<gets, metric_sets>>

(* X_gauge.labels(city=self.city) of the current statement. *)
gauge_labels ==
    /\ pc = "update"
    /\ phase = "labels"
    /\ gauges' = [gauges EXCEPT ![GaugeOrder[upd][1]] = labels(@, self.prometheus_metrics.city)]
    /\ phase' = "set"
    /\ scraped' = NoScrape
    /\ UNCHANGED <<config, port_in_use, pc, self, weather_data, upd, server_starts,
                   server_up, request, in_flight, provider, log, exc, response,
                   last_sample, published>>
    /\ UNCHANGED <<gets, metric_sets>>

(* .set(data[field]) of the current statement; after the last statement    *)
(* update_metrics returns to the loop.                                     *)
gauge_set ==
    /\ pc = "update"
    /\ phase = "set"
    /\ LET value == float(weather_data[GaugeOrder[upd][2]]) IN
       IF value = Raise
       THEN /\ exc' = Raised(IF weather_data[GaugeOrder[upd][2]] = Null
                             THEN "TypeError" ELSE "ValueError", 90 + upd)
            /\ pc' = "raised"
            /\ published' = gauges
            /\ UNCHANGED <<gauges, upd, phase>>
       ELSE /\ gauges' = [gauges EXCEPT ![GaugeOrder[upd][1]] =
                              set(@, self.prometheus_metrics.city, value[2])]
            /\ exc' = exc
            /\ IF upd = Len(GaugeOrder)
               THEN /\ pc' = "sleep"
                    /\ upd' = 0
                    /\ phase' = "idle"
                    /\ published' = gauges'
               ELSE /\ pc' = pc
                    /\ upd' = upd + 1
                    /\ phase' = "labels"
                    /\ published' = published
    /\ scraped' = NoScrape
    /\ UNCHANGED <<config, port_in_use, self, weather_data, server_starts, server_up,
                   request, in_flight, provider, log, response, last_sample>>
    /\ UNCHANGED <<gets, metric_sets>>

(* time.sleep(int(self.scrape_interval)): int() raises on a string that is *)
(* not an integer, time.sleep raises on a negative length.                 *)
sleep_call ==
    /\ pc = "sleep"
    /\ LET secs == int(self.scrape_interval) IN
       IF secs = Raise \/ secs[2] < 0
       THEN /\ exc' = Raised("ValueError", 140)
            /\ pc' = "raised"
       ELSE /\ pc' = "sleeping"
            /\ exc' = exc
    /\ scraped' = NoScrape
    /\ UNCHANGED <<config, port_in_use, self, gauges, weather_data, upd, phase,
                   server_starts, server_up, request, in_flight, provider, log,
                   response, last_sample, published>>
    /\ UNCHANGED <<gets, metric_sets>>

(* A loop whose body begins with the start of the metrics server. *)
sleep_return_restarting ==
    /\ pc = "sleeping"
    /\ pc' = "constructed"
    /\ scraped' = NoScrape
    /\ gets' = 0
    /\ UNCHANGED <<config, port_in_use, self, gauges, weather_data, upd, phase,
                   server_starts, server_up, request, in_flight, provider, log, exc,
                   response, last_sample, published, metric_sets>>

(* time.sleep returns and the while loop starts over. *)
sleep_return ==
    /\ pc = "sleeping"
    /\ pc' = "loop"
    /\ scraped' = NoScrape
    /\ UNCHANGED <<config, port_in_use, self, gauges, weather_data, upd, phase,
                   server_starts, server_up, request, in_flight, provider, log, exc,
                   response, last_sample, published>>
    /\ gets' = 0
    /\ metric_sets' = metric_sets

(* The uncaught exception ends the interpreter, and with it the daemon     *)
(* thread of the metrics server.                                           *)
process_exit ==
    /\ pc = "raised"
    /\ pc' = "exited"
    /\ server_up' = FALSE
    /\ scraped' = NoScrape
    /\ UNCHANGED <<config, port_in_use, self, gauges, weather_data, upd, phase,
                   server_starts, request, in_flight, provider, log, exc,
                   response, last_sample, published>>
    /\ UNCHANGED <<gets, metric_sets>>

(* The metrics server answers a GET /metrics with the current series. *)
scrape ==
    /\ server_up
    /\ scraped = NoScrape
    /\ scraped' = [answered |-> TRUE, view |-> gauges, old |-> published,
                   updating |-> (pc = "update"), data |-> weather_data]
    /\ UNCHANGED <<config, port_in_use, pc, self, gauges, weather_data, upd, phase,
                   server_starts, server_up, request, in_flight, provider, log, exc,
                   response, last_sample, published>>
    /\ UNCHANGED <<gets, metric_sets>>

MainThread ==
    \/ WeatherMonitor_init
    \/ start_server
    \/ fetch_request
    \/ fetch_returned
    \/ gauge_labels
    \/ gauge_set
    \/ sleep_call
    \/ sleep_return
    \/ process_exit

Next ==
    \/ MainThread
    \/ provider_silent
    \/ scrape

Spec == Init /\ [][Next]_vars

(* The interpreter keeps running the main thread while it can take a step. *)
FairSpec == Spec /\ WF_vars(MainThread)

TypeOK ==
    /\ pc \in {"init", "constructed", "loop", "requesting", "update", "sleep",
               "sleeping", "raised", "exited"}
    /\ upd \in 0..Len(GaugeOrder)
    /\ in_flight \in 0..1

-----------------------------------------------------------------------------
(* Vocabulary of the properties.                                           *)

Unset == [g \in GaugeNames |-> {}]

City == self.prometheus_metrics.city

(* The gauges after a complete update_metrics(sample) under label c. *)
Floatable(sample) == \A g \in GaugeNames : float(sample[FieldOf(g)]) # Raise

Shown(sample, c) == [g \in GaugeNames |-> {<<c, float(sample[FieldOf(g)])[2]>>}]

Count(seq, level) == Cardinality({i \in DOMAIN seq : seq[i] = level})

(* The current cycle's fetch has returned None. *)
FailedCycle == pc \in {"sleep", "sleeping"} /\ weather_data = None

(* C1: a cycle whose fetch returns None changes no gauge, and the loop     *)
(* goes on to its sleep and the next cycle without crashing.               *)
C1_FailedCycleKeepsGaugesAndContinues ==
    [][/\ (pc = "requesting" /\ pc' # "requesting" /\ weather_data' = None) => gauges' = gauges
       /\ FailedCycle => (gauges' = gauges /\ pc' \in {"sleep", "sleeping", "loop"})]_vars

(* C2: a scrape sees either every gauge as the previous publish left it or *)
(* every gauge as the publish under way will leave it, never a mixture.    *)
C2_NoTornScrape ==
    scraped # NoScrape =>
        \/ scraped.view = scraped.old
        \/ /\ scraped.updating
           /\ Floatable(scraped.data)
           /\ scraped.view = Shown(scraped.data, City)

(* C3: whenever update_metrics is not running, every gauge holds, under    *)
(* the configured city, the field of the most recent sample fetched, and   *)
(* is unset before the first one.                                          *)
C3_GaugesHoldLastSample ==
    pc # "update" =>
        IF last_sample = None
        THEN gauges = Unset
        ELSE Floatable(last_sample) /\ gauges = Shown(last_sample, City)

(* The response holds the leaf l = <<object, key>>. *)
HasLeaf(data, l) ==
    /\ data[1] = "obj"
    /\ l[1] \in DOMAIN data[2]
    /\ data[2][l[1]][1] = "obj"
    /\ l[2] \in DOMAIN data[2][l[1]][2]

RequiredLeaves == Leaves \ PrecipitationLeaves

MissingRequired(data) ==
    \/ data[1] # "obj"
    \/ "visibility" \notin DOMAIN data[2]
    \/ \E l \in RequiredLeaves : ~HasLeaf(data, l)

(* Network failure, non-2xx status, invalid JSON, or a missing required    *)
(* field.                                                                  *)
FailedResponse(resp) ==
    \/ resp.kind \in {"network_error", "http_error", "invalid_json"}
    \/ resp.kind = "json" /\ MissingRequired(resp.data)

SampleKeys ==
    {"temperature", "humidity", "pressure", "wind_speed", "feels_like", "visibility",
     "wind_direction", "clouds", "rain_1h", "snow_1h", "sunrise", "sunset"}

(* C4: on every failure outcome fetch_weather_data returns None, raises    *)
(* nothing into the loop and logs exactly one ERROR; and whatever it       *)
(* returns that is not None has every field of the sample.                 *)
C4_FailureReturnsNoneWithOneError ==
    /\ FailedResponse(response) =>
          /\ weather_data = None
          /\ Count(log, "ERROR") = 1
          /\ pc # "update"
          /\ exc # NoExc => exc.line = 140
    /\ weather_data # None =>
          /\ DOMAIN weather_data = SampleKeys
          /\ \A f \in SampleKeys : weather_data[f] # Raise

C4_Witness ==
    /\ pc = "sleep"
    /\ response.kind = "json"
    /\ MissingRequired(response.data)
    /\ weather_data = None
    /\ log = <<"ERROR", "WARNING">>

(* C5: a fetch that has sent its request always returns, also when the     *)
(* provider never answers.                                                 *)
C5_FetchAlwaysReturns == (pc = "requesting") ~> (pc # "requesting")

(* The file is unreadable or lacks a section or a key. *)
ConfigIncomplete(c) ==
    \/ ~c.readable
    \/ DOMAIN c.file # DOMAIN ConfigFile
    \/ \E sk \in SectionKeys : sk[1] \in DOMAIN c.file /\ sk[2] \notin DOMAIN c.file[sk[1]]

StartupFatal == ConfigIncomplete(config) \/ port_in_use

(* C6: with an unreadable or incomplete configuration, or a metrics port   *)
(* that cannot be bound, the process never enters the loop: it sends no    *)
(* request and updates no gauge.                                           *)
C6_FatalStartupNeverEntersLoop ==
    /\ StartupFatal =>
          /\ pc \in {"init", "constructed", "raised", "exited"}
          /\ request = NoRequest
          /\ in_flight = 0
          /\ gauges = Unset
    /\ ConfigIncomplete(config) => pc \in {"init", "raised", "exited"}

C6_Witness == ~config.readable /\ pc = "exited" /\ exc.type = "KeyError"

(* The port or the scrape interval is present and is not an integer. *)
NonIntegerNumeric(c) ==
    /\ ~ConfigIncomplete(c)
    /\ \/ int(c.file.Prometheus.port) = Raise
       \/ int(c.file.Prometheus.scrape_interval) = Raise

(* C7: when the port or the scrape interval is not an integer, the process *)
(* fails before the metrics server is started and before any fetch or      *)
(* publish.                                                                *)
C7_NumericFieldFailsBeforeServerAndFetch ==
    NonIntegerNumeric(config) =>
        /\ server_starts = 0
        /\ request = NoRequest
        /\ gauges = Unset

(* C8: with the valid configuration, once the loop runs the process never  *)
(* terminates, whatever the provider returns.                              *)
C8_RunningLoopNeverTerminates ==
    (config = ValidConfig /\ server_starts > 0) => pc \notin {"raised", "exited"}

(* The response has no o.1h: the object o is missing or has no 1h key. *)
Absent1h(data, o) ==
    /\ data[1] = "obj"
    /\ \/ o \notin DOMAIN data[2]
       \/ data[2][o][1] = "obj" /\ "1h" \notin DOMAIN data[2][o][2]

(* Where each sample field other than visibility comes from. *)
LeafOf ==
    [temperature |-> <<"main", "temp">>, humidity |-> <<"main", "humidity">>,
     pressure |-> <<"main", "pressure">>, wind_speed |-> <<"wind", "speed">>,
     feels_like |-> <<"main", "feels_like">>, wind_direction |-> <<"wind", "deg">>,
     clouds |-> <<"clouds", "all">>, rain_1h |-> <<"rain", "1h">>,
     snow_1h |-> <<"snow", "1h">>, sunrise |-> <<"sys", "sunrise">>, sunset |-> <<"sys", "sunset">>]

(* The sample is the response field by field, with 0 for an absent 1h. *)
CopiedWithDefaults(sample, data) ==
    /\ sample.visibility = data[2].visibility
    /\ \A f \in DOMAIN LeafOf :
          IF HasLeaf(data, LeafOf[f])
          THEN sample[f] = data[2][LeafOf[f][1]][2][LeafOf[f][2]]
          ELSE sample[f] = Num(0)

(* C9: for a response answered with a sample in which rain.1h or snow.1h   *)
(* is absent, the sample has 0 there and the response's values elsewhere,  *)
(* and the publish that follows leaves weather_rain or weather_snow at 0.  *)
C9_AbsentPrecipitationIsZero ==
    (response.kind = "json" /\ weather_data # None) =>
        /\ CopiedWithDefaults(weather_data, response.data)
        /\ Absent1h(response.data, "rain") =>
              /\ weather_data.rain_1h = Num(0)
              /\ pc # "update" => gauges.weather_rain = {<<City, 0>>}
        /\ Absent1h(response.data, "snow") =>
              /\ weather_data.snow_1h = Num(0)
              /\ pc # "update" => gauges.weather_snow = {<<City, 0>>}

(* C10: a cycle is fetch, then publish with an INFO entry exactly when the *)
(* fetch returned a sample and a WARNING entry and no publish otherwise,   *)
(* then sleep; at most one request is in flight, no publish runs during a  *)
(* fetch, and a fetch starts only after the previous sleep has returned.   *)
C10_CycleOrder ==
    /\ [](/\ in_flight <= 1
          /\ in_flight = 1 <=> pc = "requesting"
          /\ pc = "update" => (in_flight = 0 /\ weather_data # None /\ log = <<"INFO">>)
          /\ pc \in {"sleep", "sleeping"} =>
                IF weather_data # None
                THEN log = <<"INFO">> /\ gauges = Shown(weather_data, City)
                ELSE log = <<"ERROR", "WARNING">>)
    /\ [][/\ (pc' = "requesting" /\ pc # "requesting") => pc = "loop"
          /\ (pc' = "loop" /\ pc # "loop") => pc \in {"constructed", "sleeping"}
          /\ (pc' = "update" /\ pc # "update") => (pc = "requesting" /\ weather_data' # None)
          /\ (pc' = "sleep" /\ pc # "sleep") =>
                \/ pc = "update" /\ upd = Len(GaugeOrder)
                \/ pc = "requesting" /\ weather_data' = None
          /\ (pc' = "sleeping" /\ pc # "sleeping") => pc = "sleep"
          /\ gauges' # gauges => (pc = "update" /\ in_flight = 0)
          /\ FailedCycle => gauges' = gauges]_vars

C10_Witness ==
    /\ pc = "sleeping"
    /\ weather_data # None
    /\ log = <<"INFO">>
    /\ gauges = Shown(weather_data, City)
    /\ published # Unset

(* C11: a cycle sends exactly one GET, whether it succeeds or fails; a GET *)
(* is sent only at the top of the loop, which a failed cycle reaches again *)
(* only through its sleep.                                                 *)
C11_OneRequestPerCycle ==
    /\ [](/\ pc = "loop" => gets = 0
          /\ pc \in {"requesting", "update", "sleep", "sleeping"} => gets = 1)
    /\ [][/\ gets' > gets => (pc = "loop" /\ gets' = gets + 1)
          /\ request' # request => gets' > gets
          /\ FailedCycle => gets' \in {gets, 0}
          /\ (FailedCycle /\ gets' = 0) => (pc = "sleeping" /\ pc' = "loop")]_vars

C11_Witness ==
    /\ pc = "sleeping"
    /\ weather_data = None
    /\ response.kind = "network_error"
    /\ gets = 1
    /\ last_sample # None

(* The current cycle has published the sample it fetched. *)
PublishedFresh ==
    pc = "sleep" /\ weather_data # None /\ gauges = Shown(weather_data, City)

(* C12: when every request returns, a failed cycle is always followed by   *)
(* another fetch, and from any top of the loop after which no cycle fails  *)
(* the gauges come to hold a sample fetched after it.                      *)
C12_RecoversAfterFailures ==
    [](provider # "silent") =>
        /\ FailedCycle ~> (pc = "requesting")
        /\ []((pc = "loop" /\ []~FailedCycle) => <>PublishedFresh)

(* C13: the metrics server is started once, at startup and before the     *)
(* first request, and never again; the gauges are constructed once, at     *)
(* startup, and no gauge or series of theirs is ever removed.              *)
C13_ServerAndGaugesOnce ==
    /\ [](/\ server_starts <= 1
          /\ metric_sets <= 1
          /\ request # NoRequest => (server_starts = 1 /\ metric_sets = 1)
          /\ pc \in {"loop", "requesting", "update", "sleep", "sleeping"} =>
                (server_starts = 1 /\ server_up))
    /\ [][/\ server_starts' # server_starts =>
                (pc = "constructed" /\ request = NoRequest /\ server_starts' = 1)
          /\ metric_sets' # metric_sets => (pc = "init" /\ metric_sets' = 1)
          /\ DOMAIN gauges' = DOMAIN gauges
          /\ \A g \in GaugeNames : gauges[g] # {} => gauges'[g] # {}]_vars

C13_Witness ==
    /\ pc = "requesting"
    /\ last_sample # None
    /\ gauges # Unset
    /\ server_starts = 1
    /\ metric_sets = 1

(* C14: there is a gauge for every field of the sample, sunrise and sunset *)
(* included, so that after a publish every field is shown by its gauge     *)
(* under the configured city.                                              *)
C14_EveryFieldHasGauge ==
    PublishedFresh =>
        \A f \in SampleKeys :
            \E g \in GaugeNames :
                FieldOf(g) = f /\ gauges[g] = {<<City, float(weather_data[f])[2]>>}

(* Every key is present and one of them has the empty string as value. *)
EmptyRequired(c) ==
    /\ ~ConfigIncomplete(c)
    /\ \E sk \in SectionKeys : c.file[sk[1]][sk[2]] = ""

(* C15: a configuration with an empty required field is rejected at        *)
(* startup: the metrics server is not started and no request is sent.      *)
C15_EmptyFieldRejected ==
    EmptyRequired(config) => (server_starts = 0 /\ request = NoRequest)

ZeroSample == [f \in SampleKeys |-> Num(0)]

(* C16: whether the loop publishes depends only on whether the fetch       *)
(* returned a sample; the sample whose fields are all 0 is published to    *)
(* every gauge and logged with INFO like any other.                        *)
C16_PublishDecidedByPresence ==
    /\ []((weather_data = ZeroSample /\ pc \in {"sleep", "sleeping"}) =>
             (gauges = Shown(ZeroSample, City) /\ log = <<"INFO">>))
    /\ [][(pc = "requesting" /\ pc' # "requesting") =>
             IF weather_data' # None
             THEN pc' = "update" /\ log' = <<"INFO">>
             ELSE pc' = "sleep" /\ log' = <<"ERROR", "WARNING">>]_vars

C16_Witness ==
    /\ pc = "sleep"
    /\ weather_data = ZeroSample
    /\ gauges = Shown(ZeroSample, City)
    /\ log = <<"INFO">>

(* C17: every series of every gauge carries the city of the configuration  *)
(* as its label, every request asks for that same city, and no gauge has   *)
(* more than one series.                                                   *)
C17_OneCityEverywhere ==
    /\ \A g \in GaugeNames :
          /\ Cardinality(gauges[g]) <= 1
          /\ \A p \in gauges[g] : p[1] = config.file.WeatherAPI.city
    /\ request # NoRequest =>
          /\ request.q[1] = config.file.WeatherAPI.city
          /\ request.q[1] = self.prometheus_metrics.city

C17_Witness ==
    /\ PublishedFresh
    /\ request.q = <<"Berlin", "DE">>
    /\ \A g \in GaugeNames : \E p \in gauges[g] : p[1] = "Berlin"

====
